---- MODULE Spec2Model ----
(***************************************************************************)
(* The chat-archive analyzer of src/stream.py: parse_whatsapp_chat,        *)
(* is_bangla_text, filter_bangla_messages and the search/sender filters.   *)
(*                                                                         *)
(* A Python str is a sequence of characters.  A printable ASCII character  *)
(* is written as the one-character string, any other character as the     *)
(* string "U+XXXX" of its code point.  A dict created by the parser is an  *)
(* object of the heap; the lists of the program hold references to it.     *)
(***************************************************************************)
EXTENDS Integers, Sequences, FiniteSets, TLC

\* -------------------------------------------------------------------------
\* Characters
\* -------------------------------------------------------------------------

\* The printable ASCII characters, U+0020 .. U+007E, in code-point order (the
\* grave accent, which a TLA+ string cannot hold, by its code point).
Ascii ==
  <<
    " ", "!", "\"", "#", "$", "%", "&", "'", "(", ")", "*", "+", ",", "-", ".", "/",
    "0", "1", "2", "3", "4", "5", "6", "7", "8", "9", ":", ";", "<", "=", ">", "?",
    "@", "A", "B", "C", "D", "E", "F", "G", "H", "I", "J", "K", "L", "M", "N", "O",
    "P", "Q", "R", "S", "T", "U", "V", "W", "X", "Y", "Z", "[", "\\", "]", "^", "_",
    "U+0060", "a", "b", "c", "d", "e", "f", "g", "h", "i", "j", "k", "l", "m", "n", "o",
    "p", "q", "r", "s", "t", "u", "v", "w", "x", "y", "z", "{", "|", "}", "~"
  >>

\* The other characters of the model and their code points: tab, line feed,
\* carriage return, no-break space, the last Devanagari code point before the
\* Bangla block, Bangla letters, signs and a digit, the last code point of the
\* Bangla block, the first one after it, and an emoji.
NonAscii ==
  ("U+0009" :> 9) @@ ("U+000A" :> 10) @@ ("U+000D" :> 13) @@ ("U+00A0" :> 160) @@
  ("U+097F" :> 2431) @@ ("U+0980" :> 2432) @@ ("U+0986" :> 2438) @@
  ("U+0987" :> 2439) @@ ("U+0995" :> 2453) @@ ("U+0996" :> 2454) @@
  ("U+099B" :> 2459) @@
  ("U+09A8" :> 2472) @@ ("U+09AC" :> 2476) @@ ("U+09AE" :> 2478) @@
  ("U+09AF" :> 2479) @@ ("U+09B2" :> 2482) @@ ("U+09B8" :> 2488) @@
  ("U+09B9" :> 2489) @@ ("U+09BE" :> 2494) @@ ("U+09C7" :> 2503) @@
  ("U+09CB" :> 2507) @@ ("U+09CD" :> 2509) @@ ("U+09EB" :> 2539) @@
  ("U+09FF" :> 2559) @@ ("U+0A00" :> 2560) @@ ("U+1F600" :> 128512)

AsciiCode ==
  [c \in {Ascii[i] : i \in 1..Len(Ascii)} |->
     31 + (CHOOSE i \in 1..Len(Ascii) : Ascii[i] = c)]

\* ord(c)
CodePoint(c) == IF c \in DOMAIN NonAscii THEN NonAscii[c] ELSE AsciiCode[c]

\* The code points of the Unicode whitespace characters.
Whitespace ==
  (9..13) \cup (28..32) \cup {133, 160, 5760} \cup (8192..8202)
    \cup {8232, 8233, 8239, 8287, 12288}

\* str.isspace() of one character, and \s of a str pattern.
IsSpace(c) == CodePoint(c) \in Whitespace

\* \d of a str pattern: a Unicode decimal digit (the ASCII and the Bangla
\* digits are the ones of the model's alphabet).
IsDigit(c) ==
  \/ 48 <= CodePoint(c) /\ CodePoint(c) <= 57
  \/ 2534 <= CodePoint(c) /\ CodePoint(c) <= 2543

\* str.lower() of one character of the model's alphabet: only the ASCII
\* capitals have a lower-case form there.
LowerChar(c) ==
  IF 65 <= CodePoint(c) /\ CodePoint(c) <= 90
  THEN Ascii[CodePoint(c) + 32 - 31]
  ELSE c

\* str.lower()
Lower(s) == [i \in 1..Len(s) |-> LowerChar(s[i])]

\* -------------------------------------------------------------------------
\* Strings
\* -------------------------------------------------------------------------

Min(a, b) == IF a <= b THEN a ELSE b

\* A character class of the header pattern, by its name in the pattern.
InClass(class, c) ==
  CASE class = "\\s"  -> IsSpace(c)
    [] class = "\\d"  -> IsDigit(c)
    [] class = "[^:]" -> c # ":"

\* The end (exclusive) of the longest run of at most `most` characters of the
\* class, starting at position i of s: a greedy quantifier.
RunEnd(class, s, i, most) ==
  LET stop == Min(Len(s) + 1, i + most)
  IN  CHOOSE j \in i..stop :
        /\ (j = stop \/ ~InClass(class, s[j]))
        /\ \A k \in i..(j - 1) : InClass(class, s[k])

\* The character at position i, or the empty string past the end.
CharAt(s, i) == IF i \in 1..Len(s) THEN s[i] ELSE ""

\* str.strip(): without the leading and the trailing whitespace.
Strip(s) ==
  LET keep == {i \in 1..Len(s) : ~IsSpace(s[i])}
  IN  IF keep = {} THEN <<>>
      ELSE SubSeq(s, CHOOSE i \in keep : \A k \in keep : i <= k,
                     CHOOSE j \in keep : \A k \in keep : k <= j)

\* needle in haystack
Contains(haystack, needle) ==
  \E i \in 0..(Len(haystack) - Len(needle)) :
    \A k \in 1..Len(needle) : haystack[i + k] = needle[k]

\* str.split('\n'): the pieces between the line feeds, one more than there
\* are line feeds.
RECURSIVE SplitFrom(_, _)
SplitFrom(s, i) ==
  LET rest == {k \in i..Len(s) : s[k] = "U+000A"}
  IN  IF rest = {} THEN <<SubSeq(s, i, Len(s))>>
      ELSE LET k == CHOOSE k \in rest : \A m \in rest : k <= m
           IN  <<SubSeq(s, i, k - 1)>> \o SplitFrom(s, k + 1)

Split(s) == SplitFrom(s, 1)

\* -------------------------------------------------------------------------
\* parse_whatsapp_chat: the header pattern
\* -------------------------------------------------------------------------

\* No bound on a * or + quantifier: longer than any line.
Unbounded(s) == Len(s) + 1

\* re.match(pattern, line, re.IGNORECASE) for
\*   ^(\d{1,2}/\d{1,2}/\d{4}),\s+(\d{1,2}:\d{2}\s*(?:am|pm))\s*-\s*([^:]+):\s*(.*)$
\* is read left to right, each quantifier greedy, one operator for each part
\* of the pattern (the last part first).  Only \s*([^:]+) can make the
\* matcher give a character back: when nothing but whitespace stands between
\* the dash and the colon, \s* leaves its last character to the group.  The
\* result is the match's four groups, or matched = FALSE (None).  A line has
\* no line feed (it is a piece of split('\n')), so . matches every character
\* of it and $ only its end.
NoMatch ==
  [matched |-> FALSE, g1 |-> <<>>, g2 |-> <<>>, g3 |-> <<>>, g4 |-> <<>>]

\* \s*(.*)$ after the colon at position colon.
MatchText(line, g1, g2, g3, colon) ==
  [matched |-> TRUE, g1 |-> g1, g2 |-> g2, g3 |-> g3,
   g4 |-> SubSeq(line, RunEnd("\\s", line, colon + 1, Unbounded(line)),
                 Len(line))]

\* \s*([^:]+): from position i, the one after the dash.
MatchSender(line, g1, g2, i) ==
  LET wsE   == RunEnd("\\s", line, i, Unbounded(line))
      nameE == RunEnd("[^:]", line, wsE, Unbounded(line))
      nameB == IF nameE > wsE THEN wsE ELSE wsE - 1
  IN  IF nameB >= i /\ CharAt(line, nameE) = ":"
      THEN MatchText(line, g1, g2, SubSeq(line, nameB, nameE - 1), nameE)
      ELSE NoMatch

\* \s*- from position i, the one after the time.
MatchDash(line, g1, g2, i) ==
  LET dashB == RunEnd("\\s", line, i, Unbounded(line))
  IN  IF CharAt(line, dashB) = "-"
      THEN MatchSender(line, g1, g2, dashB + 1)
      ELSE NoMatch

\* (\d{1,2}:\d{2}\s*(?:am|pm)) from position i, IGNORECASE.
MatchTime(line, g1, i) ==
  LET hourE == RunEnd("\\d", line, i, 2)
      minE  == RunEnd("\\d", line, hourE + 1, 2)
      ampmB == RunEnd("\\s", line, minE, Unbounded(line))
  IN  IF /\ hourE - i >= 1
         /\ CharAt(line, hourE) = ":"
         /\ minE - (hourE + 1) = 2
         /\ ampmB + 1 <= Len(line)
         /\ LowerChar(line[ampmB]) \in {"a", "p"}
         /\ LowerChar(line[ampmB + 1]) = "m"
      THEN MatchDash(line, g1, SubSeq(line, i, ampmB + 1), ampmB + 2)
      ELSE NoMatch

\* ,\s+ from position i, the one after the date.
MatchComma(line, g1, i) ==
  LET gapE == RunEnd("\\s", line, i + 1, Unbounded(line))
  IN  IF CharAt(line, i) = "," /\ gapE - (i + 1) >= 1
      THEN MatchTime(line, g1, gapE)
      ELSE NoMatch

\* ^(\d{1,2}/\d{1,2}/\d{4}) and the rest of the pattern.
HeaderMatch(line) ==
  LET dayE  == RunEnd("\\d", line, 1, 2)
      monE  == RunEnd("\\d", line, dayE + 1, 2)
      yearE == RunEnd("\\d", line, monE + 1, 4)
  IN  IF /\ dayE - 1 >= 1
         /\ CharAt(line, dayE) = "/"
         /\ monE - (dayE + 1) >= 1
         /\ CharAt(line, monE) = "/"
         /\ yearE - (monE + 1) = 4
      THEN MatchComma(line, SubSeq(line, 1, yearE - 1), yearE)
      ELSE NoMatch

\* -------------------------------------------------------------------------
\* is_bangla_text
\* -------------------------------------------------------------------------

system_keywords ==
  <<
    \* Messages and calls are end-to-end encrypted
    <<"M", "e", "s", "s", "a", "g", "e", "s", " ", "a", "n", "d", " ", "c", "a", "l", "l", "s", " ", "a", "r", "e", " ", "e", "n", "d", "-", "t", "o", "-", "e", "n", "d", " ", "e", "n", "c", "r", "y", "p", "t", "e", "d">>,
    \* created group
    <<"c", "r", "e", "a", "t", "e", "d", " ", "g", "r", "o", "u", "p">>,
    \* were added
    <<"w", "e", "r", "e", " ", "a", "d", "d", "e", "d">>,
    \* left
    <<"l", "e", "f", "t">>,
    \* changed
    <<"c", "h", "a", "n", "g", "e", "d">>,
    \* <Media omitted>
    <<"<", "M", "e", "d", "i", "a", " ", "o", "m", "i", "t", "t", "e", "d", ">">>,
    \* Waiting for this message
    <<"W", "a", "i", "t", "i", "n", "g", " ", "f", "o", "r", " ", "t", "h", "i", "s", " ", "m", "e", "s", "s", "a", "g", "e">>,
    \* This message was deleted
    <<"T", "h", "i", "s", " ", "m", "e", "s", "s", "a", "g", "e", " ", "w", "a", "s", " ", "d", "e", "l", "e", "t", "e", "d">>,
    \* changed to
    <<"c", "h", "a", "n", "g", "e", "d", " ", "t", "o">>
  >>

\* The characters of the literal '.,!?;:@#$%^&*()[]{}+-=/\\|<>~`"\''.
Punctuation ==
  {".", ",", "!", "?", ";", ":", "@", "#", "$", "%", "^", "&", "*", "(", ")",
   "[", "]", "{", "}", "+", "-", "=", "/", "\\", "|", "<", ">", "~", "U+0060",
   "\"", "'"}

\* A variant of InBanglaRange with the range of Devanagari, U+0900..U+097F.
InDevanagariRange(char) == 2304 <= CodePoint(char) /\ CodePoint(char) <= 2431

\* '\u0980' <= char <= '\u09FF'
InBanglaRange(char) == 2432 <= CodePoint(char) /\ CodePoint(char) <= 2559

\* not text or len(text.strip()) == 0
IsBlankText(text) == text = <<>> \/ Len(Strip(text)) = 0

\* A variant of KeywordIn that compares the letters as they are.
KeywordInCaseSensitive(keyword, text) == Contains(text, keyword)

\* keyword.lower() in text.lower()
KeywordIn(keyword, text) == Contains(Lower(text), Lower(keyword))

\* A variant of Counted that takes the underscore for punctuation.
CountedExceptUnderscore(char) ==
  /\ Strip(<<char>>) # <<>>
  /\ ~IsSpace(char)
  /\ char \notin Punctuation \cup {"_"}

\* char.strip() and not char.isspace() and char not in '.,!?...'
Counted(char) ==
  /\ Strip(<<char>>) # <<>>
  /\ ~IsSpace(char)
  /\ char \notin Punctuation

\* One pass of the body of `for char in text`.
CountChar(counts, char) ==
  IF Counted(char)
  THEN [total_chars  |-> counts.total_chars + 1,
        bangla_chars |-> counts.bangla_chars + (IF InBanglaRange(char) THEN 1 ELSE 0)]
  ELSE counts

\* (bangla_chars / total_chars) >= 0.25 for total_chars > 0.  The quotient
\* of two ints is the correctly rounded double and 0.25 is a double, so the
\* comparison is the one of the exact fractions: 4 * bangla >= 1 * total.
\* (MoreThanQuarter is the variant with > for >=.)
RatioDen == 4
RatioNum == 1
MoreThanQuarter(bangla_chars, total_chars) ==
  RatioDen * bangla_chars > RatioNum * total_chars

AtLeastQuarter(bangla_chars, total_chars) ==
  RatioDen * bangla_chars >= RatioNum * total_chars

\* `for char in text` from position i on.  (counts.total_chars < 0 never
\* holds: it has TLC evaluate counts before the next pass.)
RECURSIVE CountFrom(_, _, _)
CountFrom(text, i, counts) ==
  IF i > Len(text) \/ counts.total_chars < 0 THEN counts
  ELSE CountFrom(text, i + 1, CountChar(counts, text[i]))

\* is_bangla_text(text), as a function of its argument.
is_bangla_text(text) ==
  IF IsBlankText(text) THEN FALSE
  ELSE IF \E k \in 1..Len(system_keywords) : KeywordIn(system_keywords[k], text)
  THEN FALSE
  ELSE LET counts == CountFrom(text, 1, [total_chars |-> 0, bangla_chars |-> 0])
       IN  IF counts.total_chars = 0 THEN FALSE
           ELSE AtLeastQuarter(counts.bangla_chars, counts.total_chars)

\* -------------------------------------------------------------------------
\* parse_whatsapp_chat: the scan
\* -------------------------------------------------------------------------

\* None, among references to heap objects 1, 2, ...
None == 0

\* A variant of NewMessage that keeps the sender as matched, untrimmed.
NewMessageUntrimmedSender(match) ==
  [date    |-> match.g1,
   time    |-> match.g2,
   sender  |-> match.g3,
   message |-> Strip(match.g4)]

\* The dict of a matched header line.
NewMessage(match) ==
  [date    |-> match.g1,
   time    |-> match.g2,
   sender  |-> Strip(match.g3),
   message |-> Strip(match.g4)]

\* A variant of StartMessage that puts the finished message at the front of
\* the list.
StartMessagePrepending(st, match) ==
  [heap        |-> Append(st.heap, NewMessage(match)),
   current_msg |-> Len(st.heap) + 1,
   messages    |-> IF st.current_msg # None
                   THEN <<st.current_msg>> \o st.messages
                   ELSE st.messages]

\* A variant of StartMessage that puts the new dict into the list at once,
\* while lines are still to be appended to it.
StartMessageEmittingNew(st, match) ==
  [heap        |-> Append(st.heap, NewMessage(match)),
   current_msg |-> Len(st.heap) + 1,
   messages    |-> Append(st.messages, Len(st.heap) + 1)]

\* The state of the scan is st = [heap, current_msg, messages].
\* `if match:`: the message under construction, if any, is appended to
\* messages and current_msg becomes a new dict.
StartMessage(st, match) ==
  [heap        |-> Append(st.heap, NewMessage(match)),
   current_msg |-> Len(st.heap) + 1,
   messages    |-> IF st.current_msg # None
                   THEN Append(st.messages, st.current_msg)
                   ELSE st.messages]

\* A variant of AppendLine that appends the line as it stands, untrimmed.
AppendLineUntrimmed(st, line) ==
  [st EXCEPT !.heap[st.current_msg].message = @ \o <<"U+000A">> \o line]

\* current_msg['message'] += '\n' + line.strip()
AppendLine(st, line) ==
  [st EXCEPT !.heap[st.current_msg].message = @ \o <<"U+000A">> \o Strip(line)]

\* A variant of IsContinuation that does not test the line.
IsContinuationAnyLine(st, line) == st.current_msg # None

\* `elif current_msg and line.strip():`
IsContinuation(st, line) == st.current_msg # None /\ Strip(line) # <<>>

\* A variant of ScanLine that starts a message, without date, time and
\* sender, for a line that has no message to continue.
ScanLineKeepingOrphans(st, line) ==
  LET match == HeaderMatch(line)
  IN  IF match.matched THEN StartMessage(st, match)
      ELSE IF IsContinuation(st, line) THEN AppendLine(st, line)
      ELSE IF Strip(line) # <<>>
      THEN StartMessage(st, [NoMatch EXCEPT !.g4 = line])
      ELSE st

\* A variant of ScanLine in which a blank line ends the message under
\* construction.
ScanLineClosingOnBlank(st, line) ==
  LET match == HeaderMatch(line)
  IN  IF match.matched THEN StartMessage(st, match)
      ELSE IF IsContinuation(st, line) THEN AppendLine(st, line)
      ELSE IF st.current_msg # None
      THEN [st EXCEPT !.messages = Append(@, st.current_msg),
                      !.current_msg = None]
      ELSE st

\* A variant of ScanLine that skips a line which lacks only the colon to
\* be a header line.
ScanLineSkippingNotices(st, line) ==
  LET match == HeaderMatch(line)
  IN  IF match.matched THEN StartMessage(st, match)
      ELSE IF HeaderMatch(line \o <<":">>).matched THEN st
      ELSE IF IsContinuation(st, line) THEN AppendLine(st, line)
      ELSE st

\* One pass of the body of `for line in lines`.
ScanLine(st, line) ==
  LET match == HeaderMatch(line)
  IN  IF match.matched THEN StartMessage(st, match)
      ELSE IF IsContinuation(st, line) THEN AppendLine(st, line)
      ELSE st

\* A variant of AddLast that forgets the message under construction at the
\* end of the input.
AddLastForgotten(st) == st

\* A variant of AddLast that appends the last message twice.
AddLastTwice(st) ==
  IF st.current_msg # None
  THEN [st EXCEPT !.messages =
         Append(Append(st.messages, st.current_msg), st.current_msg)]
  ELSE st

\* `# Add last message`.
AddLast(st) ==
  [st EXCEPT !.messages = IF st.current_msg # None
                          THEN Append(@, st.current_msg)
                          ELSE @]

\* `for line in lines` from position i on, then `# Add last message`.
\* (st.current_msg < None never holds: it has TLC evaluate st before the
\* next pass.)
RECURSIVE ScanFrom(_, _, _)
ScanFrom(lines, i, st) ==
  IF i > Len(lines) \/ st.current_msg < None THEN AddLast(st)
  ELSE ScanFrom(lines, i + 1, ScanLine(st, lines[i]))

\* The dicts a list of references refers to.
Deref(heap, refs) == [k \in 1..Len(refs) |-> heap[refs[k]]]

\* parse_whatsapp_chat(chat_text), as a function of its argument: the dicts
\* of the returned list.
parse_whatsapp_chat(chat_text) ==
  LET st == ScanFrom(Split(chat_text), 1,
                     [heap |-> <<>>, current_msg |-> None, messages |-> <<>>])
  IN  Deref(st.heap, st.messages)

\* -------------------------------------------------------------------------
\* The inputs of the model
\* -------------------------------------------------------------------------

\* '1/2/2024, 9:05 am - Alice: ' and the Bangla word
\* U+09B9 U+09CD U+09AF U+09BE U+09B2 U+09CB
LineAlice ==
  <<"1", "/", "2", "/", "2", "0", "2", "4", ",", " ", "9", ":", "0", "5", " ", "a", "m", " ", "-", " ", "A", "l", "i", "c", "e", ":", " ", "U+09B9", "U+09CD", "U+09AF", "U+09BE", "U+09B2", "U+09CB">>

\* '2/2/2024, 9:06 am - Bob: hi'
LineBob ==
  <<"2", "/", "2", "/", "2", "0", "2", "4", ",", " ", "9", ":", "0", "6", " ", "a", "m", " ", "-", " ", "B", "o", "b", ":", " ", "h", "i">>

\* '12/11/2024,  10:15PM-+880 1 :' U+0995 ':hi \t'
LinePhone ==
  <<"1", "2", "/", "1", "1", "/", "2", "0", "2", "4", ",", " ", " ", "1", "0", ":", "1", "5", "P", "M", "-", "+", "8", "8", "0", " ", "1", " ", ":", "U+0995", ":", "h", "i", " ", "U+0009">>

\* Two Bangla words with a space between them:
\* U+0995 U+09C7 U+09AE U+09A8, U+0986 U+099B U+09C7 U+09A8
LineBangla ==
  <<"U+0995", "U+09C7", "U+09AE", "U+09A8", " ", "U+0986", "U+099B", "U+09C7", "U+09A8">>

\* '1/2/2024, 9:05 am - Alice left \r'
LineNotice ==
  <<"1", "/", "2", "/", "2", "0", "2", "4", ",", " ", "9", ":", "0", "5", " ", "a", "m", " ", "-", " ", "A", "l", "i", "c", "e", " ", "l", "e", "f", "t", " ", "U+000D">>

\* ' \r'
LineBlank == <<" ", "U+000D">>

\* The lines a chat text of the model is made of: three header lines (the
\* third without spaces around the dash, with a capital PM, a space before
\* the colon, a colon in its text and whitespace at its end), a continuation
\* line, a line that has the date and time of a header but no colon after
\* the dash, and a blank line.
Lines == {LineAlice, LineBob, LinePhone, LineBangla, LineNotice, LineBlank}

\* The most lines of a chat text.
MaxLines == 3

\* '\n'.join(ls)
RECURSIVE JoinLines(_)
JoinLines(ls) ==
  IF Len(ls) = 1 THEN ls[1]
  ELSE JoinLines(SubSeq(ls, 1, Len(ls) - 1)) \o <<"U+000A">> \o ls[Len(ls)]

ChatTexts == UNION {{JoinLines(ls) : ls \in [1..n -> Lines]} : n \in 1..MaxLines}

\* What the user may type into the search box: nothing, or 'HI'.
SearchTerms == {<<>>, <<"H", "I">>}

\* The first entry of the sender selectbox, the Bangla word for "everyone".
Everyone == <<"U+09B8", "U+09AC", "U+09BE", "U+0987">>

\* The pieces a text given to is_bangla_text is made of.
Fragments ==
  {
    <<"U+0995">>,
    <<"a", "b">>,
    <<"c">>,
    <<" ", "U+0009">>,
    <<".", "!">>,
    <<"L", "e", "F", "t">>,
    <<"<", "M", "e", "d", "i", "a", " ", "o", "m", "i", "t", "t", "e", "d", ">">>,
    <<"U+1F600">>,
    <<"_", "7", "U+000A">>
  }

\* The most pieces of a text.
MaxFragments == 3

RECURSIVE Concat(_)
Concat(fs) ==
  IF Len(fs) = 0 THEN <<>>
  ELSE Concat(SubSeq(fs, 1, Len(fs) - 1)) \o fs[Len(fs)]

Texts == UNION {{Concat(fs) : fs \in [1..n -> Fragments]} : n \in 0..MaxFragments}

\* None, as the value of chat_text: a text is a sequence of characters, and
\* "None" is no character.
NoText == <<"None">>

\* A member of an archive: whether its name ends in '.txt', whether it is a
\* directory, whether its bytes decode as UTF-8, and the characters they
\* decode to.
TxtFile(content) ==
  [txt |-> TRUE, dir |-> FALSE, utf8 |-> TRUE, content |-> content]

PhotoFile == [txt |-> FALSE, dir |-> FALSE, utf8 |-> FALSE, content |-> <<>>]

BinaryTxtFile == [txt |-> TRUE, dir |-> FALSE, utf8 |-> FALSE, content |-> <<>>]

\* A directory whose name ends in '.txt'.
TxtDirectory == [txt |-> TRUE, dir |-> TRUE, utf8 |-> FALSE, content |-> <<>>]

\* An uploaded file: whether it is a zip archive at all, its members in the
\* order of extraction, and the member at which extraction breaks (0: none).
Archive(members, bad_member) ==
  [is_zip |-> TRUE, members |-> members, bad_member |-> bad_member]

NotAZip == [is_zip |-> FALSE, members |-> <<>>, bad_member |-> 0]

\* The archive of an exported chat: one text file.
ChatArchive(chat) == Archive(<<TxtFile(chat)>>, 0)

\* Archives without a text file: an empty one and one with a photo only.
NoTxtArchives == {Archive(<<>>, 0), Archive(<<PhotoFile>>, 0)}

\* Archives of which extraction or reading fails: no zip file, a second
\* member that cannot be extracted, a text file that is not UTF-8, a
\* directory named as a text file.
BrokenArchives ==
  {NotAZip,
   Archive(<<PhotoFile, TxtFile(LineBob)>>, 2),
   Archive(<<PhotoFile, BinaryTxtFile>>, 0),
   Archive(<<TxtDirectory>>, 0)}

\* An archive with a photo and two text files.
TwoTxtArchive == Archive(<<TxtFile(LineAlice), PhotoFile, TxtFile(LineBob)>>, 0)

Archives ==
  {ChatArchive(chat) : chat \in ChatTexts}
    \cup NoTxtArchives \cup BrokenArchives \cup {TwoTxtArchive}

\* The archives uploaded one after the other in one session of the page: a
\* chat of a Bangla message of two lines, a chat that is a continuation
\* line only, a chat of a message that is not Bangla and a blank line, and
\* archives of which the extraction gives no text.
SessionArchives ==
  {ChatArchive(JoinLines(<<LineAlice, LineBangla>>)),
   ChatArchive(LineBangla),
   ChatArchive(JoinLines(<<LineBob, LineBlank>>))}
    \cup {Archive(<<PhotoFile>>, 0)} \cup BrokenArchives

\* The most uploads of a session.
MaxRuns == 2

\* -------------------------------------------------------------------------
\* State
\* -------------------------------------------------------------------------

VARIABLES
  chat_text,          \* the text read from the archive
  lines,              \* parse_whatsapp_chat: chat_text.split('\n')
  idx,                \* parse_whatsapp_chat: the position of `for line in lines`
  heap,               \* the dicts created so far, by reference
  current_msg,        \* parse_whatsapp_chat: a reference, or None
  messages,           \* parse_whatsapp_chat: messages, then all_messages
  bangla_messages,    \* filter_bangla_messages: bangla_messages
  fidx,               \* filter_bangla_messages: the position of `for msg in messages`
  search_term,        \* the text of the search box
  selected_sender,    \* the choice of the sender selectbox
  filtered_messages,  \* the list shown to the user
  pc,                 \* where the upload handling is
  archive,            \* uploaded_file
  temp_dir,           \* extract_zip_file: the temporary directory
  member,             \* extract_zip_file: the position of extractall
  runs,               \* the number of uploads handled, this one included
  module,             \* get_video_comments: the file it is of, comment.py or overall.py
  max_results,        \* get_video_comments: max_results
  comments_data,      \* get_video_comments: comments_data
  request,            \* get_video_comments: request
  response,           \* get_video_comments: response
  item,               \* get_video_comments: the position of `for item in response['items']`
  error,              \* get_video_comments: the HttpError raised, if any
  returned,           \* get_video_comments: the value returned, once gpc = "done"
  obeyed,             \* no response so far held more items than its request asked for
  productive,         \* every response so far that carried a nextPageToken held a comment
  gpc,                \* where get_video_comments is
  text,               \* is_bangla_text: its argument
  kw,                 \* is_bangla_text: the position of `for keyword in system_keywords`
  ci,                 \* is_bangla_text: the position of `for char in text`
  bangla_chars,       \* is_bangla_text: bangla_chars
  total_chars,        \* is_bangla_text: total_chars
  result,             \* is_bangla_text: the value returned, once cpc = "done"
  cpc                 \* where is_bangla_text is

parserVars == <<chat_text, lines, idx, heap, current_msg, messages>>
viewVars == <<bangla_messages, fidx, search_term, selected_sender, filtered_messages>>
classifierVars == <<text, kw, ci, bangla_chars, total_chars, result, cpc>>
loaderVars == <<archive, temp_dir, member, runs>>
commentVars == <<module, max_results, comments_data, request, response, item,
                 error, returned, obeyed, productive, gpc>>
vars == <<parserVars, viewVars, pc, classifierVars, loaderVars, commentVars>>

\* The upload handling has not started / is_bangla_text has not been called.
PipelineIdle ==
  /\ chat_text = <<>>
  /\ lines = <<>>
  /\ idx = 1
  /\ heap = <<>>
  /\ current_msg = None
  /\ messages = <<>>
  /\ bangla_messages = <<>>
  /\ fidx = 1
  /\ search_term = <<>>
  /\ selected_sender = Everyone
  /\ filtered_messages = <<>>

\* No temporary directory.
NoDir == [exists |-> FALSE, files |-> <<>>]

LoaderIdle ==
  /\ temp_dir = NoDir
  /\ member = 1
  /\ runs = 1

ClassifierIdle ==
  /\ text = <<>>
  /\ kw = 1
  /\ ci = 1
  /\ bangla_chars = 0
  /\ total_chars = 0
  /\ result = FALSE

\* The most items one page request may ask for: the 100 of
\* `maxResults=min(..., 100)`.
PageCap == 100

\* The least value of the slider "Max comments to fetch", and its default,
\* which is also the default of the parameter max_results.
SliderMin == 10
SliderDefault == 100

\* The greatest value of max_results explored (the slider ends at 500).
MaxComments == 120

\* How many more items than were asked for a response may hold.
MaxExcess == 1

\* The values of max_results: st.slider("Max comments to fetch", 10, 500, 100).
Sliders == {SliderMin, SliderDefault, MaxComments}

\* youtube.commentThreads().list(..., maxResults=n), with or without a
\* pageToken; NoRequest before the first is built.
Request(token, n) == [pageToken |-> token, maxResults |-> n]
NoRequest == Request(FALSE, 0)

\* The result of request.execute(): the length of response['items'] and
\* whether 'nextPageToken' is in response; NoResponse before the first.
Response(n, token) == [items |-> n, nextPageToken |-> token]
NoResponse == Response(0, FALSE)

\* The numbers of items the service may answer a request for n items with:
\* none, one, all that were asked for, or more than that.
ItemCounts(n) == {0, 1, n} \cup {n + k : k \in 1..MaxExcess}

\* The texts of the HttpError that request.execute() may raise, by the reason
\* they give; "none" when nothing was raised.
HttpErrors == {"commentsDisabled", "quotaExceeded"}

\* The values get_video_comments returns: the list comments_data, None, or
\* the string "disabled"; NotReturned while it runs.
ReturnedList(comments) == [value |-> "list", comments |-> comments]
ReturnedNone == [value |-> "None", comments |-> <<>>]
ReturnedDisabled == [value |-> "disabled", comments |-> <<>>]
NotReturned == [value |-> "", comments |-> <<>>]

\* get_video_comments has not been called.
CommentsIdle ==
  /\ module = "comment"
  /\ max_results = SliderDefault
  /\ comments_data = <<>>
  /\ request = NoRequest
  /\ response = NoResponse
  /\ item = 1
  /\ error = "none"
  /\ returned = NotReturned
  /\ obeyed = TRUE
  /\ productive = TRUE
  /\ gpc = "idle"

\* -------------------------------------------------------------------------
\* The upload handling: extract_zip_file(uploaded_file)
\* -------------------------------------------------------------------------

\* A variant of TemporaryDirectoryExit that removes the directory only when
\* the block is left by a return.
TemporaryDirectoryExitOnReturnOnly(raised) ==
  temp_dir' = IF raised THEN temp_dir ELSE NoDir

\* The exit of `with tempfile.TemporaryDirectory() as temp_dir`, by a return
\* or by an exception (raised): the directory and its content are removed.
TemporaryDirectoryExit(raised) ==
  temp_dir' = NoDir

\* with tempfile.TemporaryDirectory() as temp_dir:
MakeTempDir ==
  /\ pc = "extract"
  /\ temp_dir' = [exists |-> TRUE, files |-> <<>>]
  /\ member' = 1
  /\ pc' = "open"
  /\ UNCHANGED <<parserVars, viewVars, classifierVars, archive, runs, commentVars>>

\* with zipfile.ZipFile(zip_file, 'r') as zip_ref: on a zip archive.
OpenZip ==
  /\ pc = "open"
  /\ archive.is_zip
  /\ pc' = "extractall"
  /\ UNCHANGED <<parserVars, viewVars, classifierVars, loaderVars, commentVars>>

\* zipfile.ZipFile raises BadZipFile on a file that is no zip archive.
BadZipFile ==
  /\ pc = "open"
  /\ ~archive.is_zip
  /\ TemporaryDirectoryExit(TRUE)
  /\ pc' = "exception"
  /\ UNCHANGED <<parserVars, viewVars, classifierVars, archive, member, runs, commentVars>>

\* zip_ref.extractall(temp_dir): one member is written to the directory.
ExtractMember ==
  /\ pc = "extractall"
  /\ member <= Len(archive.members)
  /\ member # archive.bad_member
  /\ temp_dir' = [temp_dir EXCEPT !.files = Append(@, archive.members[member])]
  /\ member' = member + 1
  /\ UNCHANGED <<parserVars, viewVars, pc, classifierVars, archive, runs, commentVars>>

\* zip_ref.extractall(temp_dir) raises at a member it cannot extract, with
\* the members before it in the directory.
ExtractMemberFails ==
  /\ pc = "extractall"
  /\ member <= Len(archive.members)
  /\ member = archive.bad_member
  /\ TemporaryDirectoryExit(TRUE)
  /\ pc' = "exception"
  /\ UNCHANGED <<parserVars, viewVars, classifierVars, archive, member, runs, commentVars>>

\* list(Path(temp_dir).rglob('*.txt')), as positions in the directory: the
\* pattern is matched against the names of files and directories alike.
TxtFiles(files) == {k \in 1..Len(files) : files[k].txt}

\* f.read() of a file opened in text mode: '\r\n' and '\r' are read as '\n'.
UniversalNewlines(s) ==
  LET read == [i \in 1..Len(s) |->
                 IF s[i] = "U+000D" THEN "U+000A"
                 ELSE IF s[i] = "U+000A" /\ i > 1 /\ s[i - 1] = "U+000D" THEN ""
                 ELSE s[i]]
  IN  SelectSeq(read, LAMBDA c : c # "")

\* `if txt_files:` return f.read() of txt_files[0]; rglob lists the files in
\* the order of the file system, so txt_files[0] is any of them.
ReturnText ==
  /\ pc = "extractall"
  /\ member > Len(archive.members)
  /\ \E k \in TxtFiles(temp_dir.files) :
       /\ ~temp_dir.files[k].dir
       /\ temp_dir.files[k].utf8
       /\ chat_text' = UniversalNewlines(temp_dir.files[k].content)
  /\ TemporaryDirectoryExit(FALSE)
  /\ pc' = "returned"
  /\ UNCHANGED <<lines, idx, heap, current_msg, messages, viewVars,
                 classifierVars, archive, member, runs, commentVars>>

\* open(txt_files[0], 'r', encoding='utf-8') raises IsADirectoryError on a
\* directory, and f.read() UnicodeDecodeError on a file that is not UTF-8.
ReadFails ==
  /\ pc = "extractall"
  /\ member > Len(archive.members)
  /\ \E k \in TxtFiles(temp_dir.files) :
       temp_dir.files[k].dir \/ ~temp_dir.files[k].utf8
  /\ TemporaryDirectoryExit(TRUE)
  /\ pc' = "exception"
  /\ UNCHANGED <<parserVars, viewVars, classifierVars, archive, member, runs, commentVars>>

\* `else:` return None
ReturnNone ==
  /\ pc = "extractall"
  /\ member > Len(archive.members)
  /\ TxtFiles(temp_dir.files) = {}
  /\ chat_text' = NoText
  /\ TemporaryDirectoryExit(FALSE)
  /\ pc' = "returned"
  /\ UNCHANGED <<lines, idx, heap, current_msg, messages, viewVars,
                 classifierVars, archive, member, runs, commentVars>>

\* A variant of ShowError that shows the warning of a chat without Bangla
\* messages.
ShowErrorAsWarning ==
  /\ pc = "returned"
  /\ chat_text = NoText
  /\ pc' = "warning"
  /\ UNCHANGED <<parserVars, viewVars, classifierVars, loaderVars, commentVars>>

\* `if chat_text is None:` st.error(...)
ShowError ==
  /\ pc = "returned"
  /\ chat_text = NoText
  /\ pc' = "error"
  /\ UNCHANGED <<parserVars, viewVars, classifierVars, loaderVars, commentVars>>

\* -------------------------------------------------------------------------
\* The upload handling: parse_whatsapp_chat(chat_text)
\* -------------------------------------------------------------------------

\* The scan state held by the variables.
Scan == [heap |-> heap, current_msg |-> current_msg, messages |-> messages]

SetScan(st) ==
  /\ heap' = st.heap
  /\ current_msg' = st.current_msg
  /\ messages' = st.messages

\* A variant of ParseBegin in which messages and current_msg outlive the
\* call, as values of the module would.
ParseBeginKeepingState ==
  /\ pc = "returned"
  /\ chat_text # NoText
  /\ lines' = Split(chat_text)
  /\ idx' = 1
  /\ pc' = "scan"
  /\ UNCHANGED <<chat_text, heap, messages, current_msg, viewVars,
                 classifierVars, loaderVars, commentVars>>

\* `else:` parse_whatsapp_chat(chat_text) is called:
\* messages = []; lines = chat_text.split('\n'); current_msg = None
ParseBegin ==
  /\ pc = "returned"
  /\ chat_text # NoText
  /\ lines' = Split(chat_text)
  /\ idx' = 1
  /\ messages' = <<>>
  /\ current_msg' = None
  /\ pc' = "scan"
  /\ UNCHANGED <<chat_text, heap, viewVars, classifierVars, loaderVars, commentVars>>

\* A pass of the loop on a line that matches the pattern.
HeaderLine ==
  /\ pc = "scan"
  /\ idx <= Len(lines)
  /\ HeaderMatch(lines[idx]).matched
  /\ SetScan(ScanLine(Scan, lines[idx]))
  /\ idx' = idx + 1
  /\ UNCHANGED <<chat_text, lines, viewVars, pc, classifierVars, loaderVars, commentVars>>

\* A pass of the loop on a line that does not match, with a message under
\* construction and the line not blank.
ContinuationLine ==
  /\ pc = "scan"
  /\ idx <= Len(lines)
  /\ ~HeaderMatch(lines[idx]).matched
  /\ IsContinuation(Scan, lines[idx])
  /\ SetScan(ScanLine(Scan, lines[idx]))
  /\ idx' = idx + 1
  /\ UNCHANGED <<chat_text, lines, viewVars, pc, classifierVars, loaderVars, commentVars>>

\* A pass of the loop on any other line.
OtherLine ==
  /\ pc = "scan"
  /\ idx <= Len(lines)
  /\ ~HeaderMatch(lines[idx]).matched
  /\ ~IsContinuation(Scan, lines[idx])
  /\ SetScan(ScanLine(Scan, lines[idx]))
  /\ idx' = idx + 1
  /\ UNCHANGED <<chat_text, lines, viewVars, pc, classifierVars, loaderVars, commentVars>>

\* The end of the loop: the last message is added and messages returned;
\* filter_bangla_messages(all_messages) begins.
ParseReturn ==
  /\ pc = "scan"
  /\ idx > Len(lines)
  /\ SetScan(AddLast(Scan))
  /\ bangla_messages' = <<>>
  /\ fidx' = 1
  /\ pc' = "filter"
  /\ UNCHANGED <<chat_text, lines, idx, search_term, selected_sender,
                 filtered_messages, classifierVars, loaderVars, commentVars>>

\* -------------------------------------------------------------------------
\* The upload handling: filter_bangla_messages and the filters of the page
\* -------------------------------------------------------------------------

\* A variant of FilterMessage that deletes from messages what is not Bangla.
FilterMessageDeleting ==
  /\ pc = "filter"
  /\ fidx <= Len(messages)
  /\ IF is_bangla_text(heap[messages[fidx]].message)
     THEN /\ bangla_messages' = Append(bangla_messages, messages[fidx])
          /\ fidx' = fidx + 1
          /\ messages' = messages
     ELSE /\ bangla_messages' = bangla_messages
          /\ fidx' = fidx
          /\ messages' = SubSeq(messages, 1, fidx - 1)
                           \o SubSeq(messages, fidx + 1, Len(messages))
  /\ UNCHANGED <<chat_text, lines, idx, heap, current_msg, search_term,
                 selected_sender, filtered_messages, pc, classifierVars,
                 loaderVars, commentVars>>

\* A pass of `for msg in messages`.
FilterMessage ==
  /\ pc = "filter"
  /\ fidx <= Len(messages)
  /\ bangla_messages' =
       IF is_bangla_text(heap[messages[fidx]].message)
       THEN Append(bangla_messages, messages[fidx])
       ELSE bangla_messages
  /\ fidx' = fidx + 1
  /\ UNCHANGED <<parserVars, search_term, selected_sender, filtered_messages,
                 pc, classifierVars, loaderVars, commentVars>>

\* return bangla_messages
FilterReturn ==
  /\ pc = "filter"
  /\ fidx > Len(messages)
  /\ pc' = "display"
  /\ UNCHANGED <<parserVars, viewVars, classifierVars, loaderVars, commentVars>>

\* search_term.lower() in msg['message'].lower()
MatchesSearch(msg, term) == Contains(Lower(msg.message), Lower(term))

\* filtered_messages, for the dicts of the heap h, the list refs and the
\* user's two inputs; SelectSeq is the list comprehension
\* [msg for msg in refs if ...].
ApplyFilters(h, refs, term, sender) ==
  LET searched == IF term # <<>>
                  THEN SelectSeq(refs, LAMBDA r : MatchesSearch(h[r], term))
                  ELSE refs
  IN  IF sender # Everyone
      THEN SelectSeq(searched, LAMBDA r : h[r].sender = sender)
      ELSE searched

\* `if bangla_messages:` with what the user typed and chose.
ShowMessages ==
  /\ pc = "display"
  /\ bangla_messages # <<>>
  /\ \E term \in SearchTerms,
        sender \in {Everyone} \cup {heap[bangla_messages[k]].sender :
                                      k \in 1..Len(bangla_messages)} :
       /\ search_term' = term
       /\ selected_sender' = sender
       /\ filtered_messages' = ApplyFilters(heap, bangla_messages, term, sender)
  /\ pc' = "done"
  /\ UNCHANGED <<parserVars, bangla_messages, fidx, classifierVars, loaderVars, commentVars>>

\* `else:` the warning that the chat has no Bangla message.
ShowWarning ==
  /\ pc = "display"
  /\ bangla_messages = <<>>
  /\ pc' = "warning"
  /\ UNCHANGED <<parserVars, viewVars, classifierVars, loaderVars, commentVars>>

\* A file has been uploaded: `if uploaded_file is not None:`
Init ==
  /\ archive \in Archives
  /\ PipelineIdle
  /\ LoaderIdle
  /\ pc = "extract"
  /\ ClassifierIdle
  /\ cpc = "idle"
  /\ CommentsIdle

Next ==
  \/ MakeTempDir
  \/ OpenZip
  \/ BadZipFile
  \/ ExtractMember
  \/ ExtractMemberFails
  \/ ReturnText
  \/ ReadFails
  \/ ReturnNone
  \/ ShowError
  \/ ParseBegin
  \/ HeaderLine
  \/ ContinuationLine
  \/ OtherLine
  \/ ParseReturn
  \/ FilterMessage
  \/ FilterReturn
  \/ ShowMessages
  \/ ShowWarning

Spec == Init /\ [][Next]_vars

\* -------------------------------------------------------------------------
\* A session of the page: one upload after the other, with is_bangla_text
\* run statement by statement
\* -------------------------------------------------------------------------

\* `if is_bangla_text(msg['message']):` the call.
FilterCall ==
  /\ pc = "filter"
  /\ fidx <= Len(messages)
  /\ cpc = "idle"
  /\ text' = heap[messages[fidx]].message
  /\ cpc' = "call"
  /\ UNCHANGED <<kw, ci, bangla_chars, total_chars, result>>
  /\ UNCHANGED <<parserVars, viewVars, pc, loaderVars, commentVars>>

\* `if is_bangla_text(msg['message']):` with the value returned, and
\* bangla_messages.append(msg).
FilterResult ==
  /\ pc = "filter"
  /\ fidx <= Len(messages)
  /\ cpc = "done"
  /\ bangla_messages' =
       IF result THEN Append(bangla_messages, messages[fidx])
       ELSE bangla_messages
  /\ fidx' = fidx + 1
  /\ cpc' = "idle"
  /\ UNCHANGED <<text, kw, ci, bangla_chars, total_chars, result>>
  /\ UNCHANGED <<parserVars, search_term, selected_sender, filtered_messages,
                 pc, loaderVars, commentVars>>

\* Another file is uploaded and the script runs again. Nothing is reset
\* here: a variable the code does not assign anew keeps the value the run
\* before left in it.
NewUpload ==
  /\ pc \in {"done", "warning", "error", "exception"}
  /\ runs < MaxRuns
  /\ archive' \in SessionArchives
  /\ runs' = runs + 1
  /\ pc' = "extract"
  /\ UNCHANGED <<parserVars, viewVars, classifierVars, temp_dir, member,
                 commentVars>>

InitSession ==
  /\ archive \in SessionArchives
  /\ PipelineIdle
  /\ LoaderIdle
  /\ pc = "extract"
  /\ ClassifierIdle
  /\ cpc = "idle"
  /\ CommentsIdle


\* -------------------------------------------------------------------------
\* A call of is_bangla_text(text), statement by statement
\* -------------------------------------------------------------------------

Return(value) ==
  /\ result' = value
  /\ cpc' = "done"

\* if not text or len(text.strip()) == 0: return False
\* Otherwise `for keyword in system_keywords` begins at the first keyword.
CheckBlank ==
  /\ cpc = "call"
  /\ IF IsBlankText(text)
     THEN Return(FALSE) /\ kw' = kw
     ELSE result' = result /\ cpc' = "keywords" /\ kw' = 1
  /\ UNCHANGED <<text, ci, bangla_chars, total_chars>>
  /\ UNCHANGED <<parserVars, viewVars, pc, loaderVars, commentVars>>

\* A variant of CheckKeyword that stays at the same keyword.
CheckKeywordWithoutAdvance ==
  /\ cpc = "keywords"
  /\ kw <= Len(system_keywords)
  /\ IF KeywordIn(system_keywords[kw], text)
     THEN Return(FALSE)
     ELSE result' = result /\ cpc' = cpc
  /\ UNCHANGED <<text, kw, ci, bangla_chars, total_chars>>
  /\ UNCHANGED <<parserVars, viewVars, pc, loaderVars, commentVars>>

\* A pass of `for keyword in system_keywords`.
CheckKeyword ==
  /\ cpc = "keywords"
  /\ kw <= Len(system_keywords)
  /\ IF KeywordIn(system_keywords[kw], text)
     THEN Return(FALSE) /\ kw' = kw
     ELSE result' = result /\ cpc' = cpc /\ kw' = kw + 1
  /\ UNCHANGED <<text, ci, bangla_chars, total_chars>>
  /\ UNCHANGED <<parserVars, viewVars, pc, loaderVars, commentVars>>

\* bangla_chars = 0; total_chars = 0
BeginCount ==
  /\ cpc = "keywords"
  /\ kw > Len(system_keywords)
  /\ bangla_chars' = 0
  /\ total_chars' = 0
  /\ ci' = 1
  /\ cpc' = "count"
  /\ UNCHANGED <<text, kw, result>>
  /\ UNCHANGED <<parserVars, viewVars, pc, loaderVars, commentVars>>

\* A pass of `for char in text`.
CountNext ==
  /\ cpc = "count"
  /\ ci <= Len(text)
  /\ LET counts == CountChar([total_chars |-> total_chars,
                              bangla_chars |-> bangla_chars], text[ci])
     IN  /\ total_chars' = counts.total_chars
         /\ bangla_chars' = counts.bangla_chars
  /\ ci' = ci + 1
  /\ UNCHANGED <<text, kw, result, cpc>>
  /\ UNCHANGED <<parserVars, viewVars, pc, loaderVars, commentVars>>

\* return (bangla_chars / total_chars) >= 0.25: the division raises
\* ZeroDivisionError when total_chars is 0.
ReturnRatio ==
  IF total_chars = 0
  THEN result' = result /\ cpc' = "ZeroDivisionError"
  ELSE Return(AtLeastQuarter(bangla_chars, total_chars))

\* A variant of Decide without the test of total_chars.
DecideWithoutZeroTest ==
  /\ cpc = "count"
  /\ ci > Len(text)
  /\ ReturnRatio
  /\ UNCHANGED <<text, kw, ci, bangla_chars, total_chars>>
  /\ UNCHANGED <<parserVars, viewVars, pc, loaderVars, commentVars>>

\* if total_chars == 0: return False
\* return (bangla_chars / total_chars) >= 0.25
Decide ==
  /\ cpc = "count"
  /\ ci > Len(text)
  /\ IF total_chars = 0
     THEN Return(FALSE)
     ELSE ReturnRatio
  /\ UNCHANGED <<text, kw, ci, bangla_chars, total_chars>>
  /\ UNCHANGED <<parserVars, viewVars, pc, loaderVars, commentVars>>

InitClassify ==
  /\ PipelineIdle
  /\ archive = NotAZip
  /\ LoaderIdle
  /\ pc = "idle"
  /\ text \in Texts
  /\ kw = 1
  /\ ci = 1
  /\ bangla_chars = 0
  /\ total_chars = 0
  /\ result = FALSE
  /\ cpc = "call"
  /\ CommentsIdle

NextClassify ==
  \/ CheckBlank
  \/ CheckKeyword
  \/ BeginCount
  \/ CountNext
  \/ Decide

SpecClassify == InitClassify /\ [][NextClassify]_vars

NextSession ==
  \/ MakeTempDir
  \/ OpenZip
  \/ BadZipFile
  \/ ExtractMember
  \/ ExtractMemberFails
  \/ ReturnText
  \/ ReadFails
  \/ ReturnNone
  \/ ShowError
  \/ ParseBegin
  \/ HeaderLine
  \/ ContinuationLine
  \/ OtherLine
  \/ ParseReturn
  \/ FilterCall
  \/ NextClassify
  \/ FilterResult
  \/ FilterReturn
  \/ ShowMessages
  \/ ShowWarning
  \/ NewUpload

SpecSession == InitSession /\ [][NextSession]_vars

\* The call runs to its end: is_bangla_text is a synchronous function, and
\* nothing suspends it between two of its statements.
SpecClassifyFair == SpecClassify /\ WF_vars(NextClassify)

\* -------------------------------------------------------------------------
\* get_video_comments(api_key, video_id, max_results), of comment.py and of
\* overall.py, statement by statement
\* -------------------------------------------------------------------------

\* A comment of comments_data is written as the position its item had in the
\* response it came with.

\* A variant of NextMaxResults that asks for a full page every time.
NextMaxResultsOfFirstPage == Min(max_results, PageCap)

\* `maxResults=min(max_results, 100)` of the first request.
FirstMaxResults == Min(max_results, PageCap)

\* `maxResults=min(max_results - len(comments_data), 100)` of the next ones.
NextMaxResults == Min(max_results - Len(comments_data), PageCap)

\* A variant of MoreComments that does not look for the nextPageToken.
MoreCommentsWithoutToken == Len(comments_data) < max_results

\* `if 'nextPageToken' in response and len(comments_data) < max_results:`
MoreComments ==
  /\ response.nextPageToken
  /\ Len(comments_data) < max_results

\* `youtube = build(...)`, `comments_data = []` and the first request.
BuildRequest ==
  /\ gpc = "call"
  /\ comments_data' = <<>>
  /\ request' = Request(FALSE, FirstMaxResults)
  /\ gpc' = "while"
  /\ UNCHANGED <<module, max_results, response, item, error, returned, obeyed,
                 productive>>
  /\ UNCHANGED <<parserVars, viewVars, pc, classifierVars, loaderVars>>

\* `while request and len(comments_data) < max_results:` (a request object
\* is never false).
WhileTest ==
  /\ gpc = "while"
  /\ gpc' = IF Len(comments_data) < max_results THEN "execute" ELSE "return"
  /\ UNCHANGED <<module, max_results, comments_data, request, response, item,
                 error, returned, obeyed, productive>>
  /\ UNCHANGED <<parserVars, viewVars, pc, classifierVars, loaderVars>>

\* `response = request.execute()` when the service answers, with any number
\* of items and with or without a nextPageToken.
Execute ==
  /\ gpc = "execute"
  /\ \E n \in ItemCounts(request.maxResults), token \in BOOLEAN :
       /\ response' = Response(n, token)
       /\ obeyed' = (obeyed /\ n <= request.maxResults)
       /\ productive' = (productive /\ (token => n >= 1))
  /\ item' = 1
  /\ gpc' = "for"
  /\ UNCHANGED <<module, max_results, comments_data, request, error, returned>>
  /\ UNCHANGED <<parserVars, viewVars, pc, classifierVars, loaderVars>>

\* `response = request.execute()` when it raises HttpError.
ExecuteRaises ==
  /\ gpc = "execute"
  /\ error' \in HttpErrors
  /\ gpc' = "except"
  /\ UNCHANGED <<module, max_results, comments_data, request, response, item,
                 returned, obeyed, productive>>
  /\ UNCHANGED <<parserVars, viewVars, pc, classifierVars, loaderVars>>

\* One turn of `for item in response['items']:`, which appends a comment.
AppendComment ==
  /\ gpc = "for"
  /\ item <= response.items
  /\ comments_data' = Append(comments_data, item)
  /\ item' = item + 1
  /\ UNCHANGED <<module, max_results, request, response, error, returned,
                 obeyed, productive, gpc>>
  /\ UNCHANGED <<parserVars, viewVars, pc, classifierVars, loaderVars>>

\* After the items, when there are more comments: the next request, with
\* `pageToken=response['nextPageToken']`.
NextPage ==
  /\ gpc = "for"
  /\ item > response.items
  /\ MoreComments
  /\ request' = Request(TRUE, NextMaxResults)
  /\ gpc' = "while"
  /\ UNCHANGED <<module, max_results, comments_data, response, item, error,
                 returned, obeyed, productive>>
  /\ UNCHANGED <<parserVars, viewVars, pc, classifierVars, loaderVars>>

\* After the items, otherwise: `break`.
Break ==
  /\ gpc = "for"
  /\ item > response.items
  /\ ~MoreComments
  /\ gpc' = "return"
  /\ UNCHANGED <<module, max_results, comments_data, request, response, item,
                 error, returned, obeyed, productive>>
  /\ UNCHANGED <<parserVars, viewVars, pc, classifierVars, loaderVars>>

\* `return comments_data`
ReturnComments ==
  /\ gpc = "return"
  /\ returned' = ReturnedList(comments_data)
  /\ gpc' = "done"
  /\ UNCHANGED <<module, max_results, comments_data, request, response, item,
                 error, obeyed, productive>>
  /\ UNCHANGED <<parserVars, viewVars, pc, classifierVars, loaderVars>>

\* A variant of Except that returns the comments collected before the error.
ExceptReturningCollected ==
  /\ gpc = "except"
  /\ returned' = ReturnedList(comments_data)
  /\ gpc' = "done"
  /\ UNCHANGED <<module, max_results, comments_data, request, response, item,
                 error, obeyed, productive>>
  /\ UNCHANGED <<parserVars, viewVars, pc, classifierVars, loaderVars>>

\* `except HttpError as e:`: comment.py shows the error and returns None;
\* overall.py returns "disabled" `if 'commentsDisabled' in str(e)`, and
\* otherwise shows the error and returns None.
Except ==
  /\ gpc = "except"
  /\ returned' = IF module = "overall" /\ error = "commentsDisabled"
                   THEN ReturnedDisabled
                   ELSE ReturnedNone
  /\ gpc' = "done"
  /\ UNCHANGED <<module, max_results, comments_data, request, response, item,
                 error, obeyed, productive>>
  /\ UNCHANGED <<parserVars, viewVars, pc, classifierVars, loaderVars>>

\* A call of get_video_comments, of either file, with a value of the slider.
InitComments ==
  /\ PipelineIdle
  /\ archive = NotAZip
  /\ LoaderIdle
  /\ pc = "idle"
  /\ ClassifierIdle
  /\ cpc = "idle"
  /\ module \in {"comment", "overall"}
  /\ max_results \in Sliders
  /\ comments_data = <<>>
  /\ request = NoRequest
  /\ response = NoResponse
  /\ item = 1
  /\ error = "none"
  /\ returned = NotReturned
  /\ obeyed = TRUE
  /\ productive = TRUE
  /\ gpc = "call"

NextComments ==
  \/ BuildRequest
  \/ WhileTest
  \/ Execute
  \/ ExecuteRaises
  \/ AppendComment
  \/ NextPage
  \/ Break
  \/ ReturnComments
  \/ Except

SpecComments == InitComments /\ [][NextComments]_vars

\* The statements of get_video_comments run one after the other, and every
\* request.execute() returns or raises.
SpecCommentsFair == SpecComments /\ WF_vars(NextComments)

\* -------------------------------------------------------------------------
\* Properties of parse_whatsapp_chat
\* -------------------------------------------------------------------------

\* parse_whatsapp_chat has returned.
Parsed == pc \in {"filter", "display", "done", "warning"}

IsHeader(line) == HeaderMatch(line).matched

IsBlankLine(line) == \A i \in 1..Len(line) : IsSpace(line[i])

\* The positions of the header lines among the first n lines of ls.
HeaderPositions(ls, n) == {i \in 1..n : IsHeader(ls[i])}

\* The positions of the header lines of ls, in increasing order.
HeaderSeq(ls) ==
  SelectSeq([i \in 1..Len(ls) |-> i], LAMBDA i : IsHeader(ls[i]))

\* C1: the number of messages is the number of lines that match the header
\* pattern: while the scan runs, the messages emitted plus the one under
\* construction are as many as the header lines scanned, and the list
\* returned has one message for each header line of the input, whatever the
\* other lines are.
C1_OneMessagePerHeader ==
  /\ pc = "scan" =>
       Len(messages) + (IF current_msg # None THEN 1 ELSE 0)
         = Cardinality(HeaderPositions(lines, idx - 1))
  /\ Parsed =>
       Len(messages)
         = Cardinality(HeaderPositions(Split(chat_text), Len(Split(chat_text))))

\* Two messages have been returned for a text of three lines, one of which is
\* no header line.
C1_Witness ==
  /\ Parsed
  /\ Len(lines) = 3
  /\ Len(messages) = 2
  /\ \E i \in 1..3 : ~IsHeader(lines[i])

\* What the lines i..n of ls add to a message's text when each of them is a
\* continuation line or blank.
RECURSIVE Continued(_, _, _)
Continued(ls, i, n) ==
  IF i > n THEN <<>>
  ELSE (IF IsBlankLine(ls[i]) THEN <<>> ELSE <<"U+000A">> \o Strip(ls[i]))
         \o Continued(ls, i + 1, n)

\* C2: the text of every returned message is the text of its header line
\* followed, for each non-blank line between that header line and the next
\* one (or the end of the input), in order, by a line feed and the trimmed
\* line: no continuation line is dropped.
C2_ContinuationsJoined ==
  Parsed =>
    LET hs == HeaderSeq(lines)
        next(k) == IF k < Len(hs) THEN hs[k + 1] ELSE Len(lines) + 1
    IN  \A k \in 1..Len(messages) :
          heap[messages[k]].message
            = NewMessage(HeaderMatch(lines[hs[k]])).message
                \o Continued(lines, hs[k] + 1, next(k) - 1)

\* A header line followed by two continuation lines has been parsed.
C2_Witness ==
  /\ Parsed
  /\ Len(lines) = 3
  /\ IsHeader(lines[1])
  /\ \A i \in 2..3 : ~IsHeader(lines[i]) /\ ~IsBlankLine(lines[i])
  /\ Len(messages) = 1

\* C3: at every point of the scan and after it, the messages of the list are
\* in the order of their header lines in the input, and each carries the
\* date, time and sender of its header line.  (The header line of a message
\* is the r-th one when the message is the r-th dict created: the scan
\* creates one dict for each header line.)
C3_SourceOrder ==
  LET hs == HeaderSeq(lines)
  IN  /\ \A i, j \in 1..Len(messages) :
           i < j => hs[messages[i]] < hs[messages[j]]
      /\ \A i \in 1..Len(messages) :
           LET m == NewMessage(HeaderMatch(lines[hs[messages[i]]]))
               d == heap[messages[i]]
           IN  d.date = m.date /\ d.time = m.time /\ d.sender = m.sender

\* Three messages of three different senders have been returned.
C3_Witness ==
  /\ Parsed
  /\ Len(messages) = 3
  /\ Cardinality({heap[messages[i]].sender : i \in 1..3}) = 3

\* '\n'.join of the lines of ls that are not blank ('' when all are).
WithoutBlankLines(ls) ==
  LET kept == SelectSeq(ls, LAMBDA l : ~IsBlankLine(l))
  IN  IF kept = <<>> THEN <<>> ELSE JoinLines(kept)

\* '\n'.join of the lines of ls from its first header line on ('' when it
\* has none).
FromFirstHeader(ls) ==
  LET hs == HeaderSeq(ls)
  IN  IF hs = <<>> THEN <<>> ELSE JoinLines(SubSeq(ls, hs[1], Len(ls)))

\* C4: the lines before the first header line are dropped.  As long as the
\* scan has met no header line, there is no message under construction, no
\* message emitted and no dict created; a text without a header line gives
\* the empty list; and the list returned is the one returned for the text
\* without its lines before the first header line.
C4_LeadingLinesDropped ==
  /\ (pc = "scan" /\ HeaderPositions(lines, idx - 1) = {}) =>
       (current_msg = None /\ messages = <<>> /\ heap = <<>>)
  /\ Parsed =>
       /\ HeaderSeq(lines) = <<>> => messages = <<>>
       /\ Deref(heap, messages) = parse_whatsapp_chat(FromFirstHeader(lines))

\* A text whose first line is neither blank nor a header line and whose
\* second line is a header line has been parsed.
C4_Witness ==
  /\ Parsed
  /\ Len(lines) >= 2
  /\ ~IsHeader(lines[1])
  /\ ~IsBlankLine(lines[1])
  /\ IsHeader(lines[2])
  /\ Len(messages) >= 1

\* The messages emitted so far and the one under construction.
SoFar ==
  Deref(heap, IF current_msg # None THEN Append(messages, current_msg)
              ELSE messages)

\* C5: blank lines change nothing.  At every point of the scan the messages
\* emitted and the one under construction are those of the lines scanned so
\* far without the blank ones, and the list returned is the one returned
\* for the text without its blank lines.
C5_BlankLinesIgnored ==
  /\ pc = "scan" =>
       SoFar = parse_whatsapp_chat(WithoutBlankLines(SubSeq(lines, 1, idx - 1)))
  /\ Parsed =>
       Deref(heap, messages) = parse_whatsapp_chat(WithoutBlankLines(lines))

\* A header line, a blank line and a continuation line have been parsed.
C5_Witness ==
  /\ Parsed
  /\ Len(lines) = 3
  /\ IsHeader(lines[1])
  /\ IsBlankLine(lines[2])
  /\ ~IsHeader(lines[3]) /\ ~IsBlankLine(lines[3])
  /\ Len(messages) = 1

\* C6: once a message is in the list, it stays at its place in the list and
\* its dict is never changed again, by the scan or by anything after it:
\* filter_bangla_messages and the filters of the page leave every dict and
\* the list returned by the parser as they are.
C6_EmittedImmutable ==
  [][/\ \A k \in 1..Len(messages) :
          /\ k <= Len(messages')
          /\ messages'[k] = messages[k]
          /\ heap'[messages[k]] = heap[messages[k]]
     /\ Parsed => (heap' = heap /\ messages' = messages)]_vars

\* Two messages have been returned, the second one with a continuation line
\* scanned after the first was emitted, and the page shows a message.
C6_Witness ==
  /\ pc = "done"
  /\ Len(messages) = 2
  /\ Len(lines) = 3
  /\ ~IsHeader(lines[3]) /\ ~IsBlankLine(lines[3])
  /\ filtered_messages # <<>>

\* The scan has just started a message: the last line scanned is a header
\* line and current_msg is its dict.
JustStarted == pc = "scan" /\ idx > 1 /\ IsHeader(lines[idx - 1])

\* Without the leading whitespace.
LStrip(s) == SubSeq(s, RunEnd("\\s", s, 1, Unbounded(s)), Len(s))

\* The first position after position p of line that holds the character c
\* (one past the end of the line when there is none).
FirstAfter(line, p, c) ==
  CHOOSE i \in (p + 1)..(Len(line) + 1) :
    /\ i = Len(line) + 1 \/ line[i] = c
    /\ \A k \in (p + 1)..(i - 1) : line[k] # c

\* The dict d is the header line `line` split as follows: the line begins
\* with d.date, a comma, whitespace and d.time, which ends at some position
\* p; after optional whitespace and a dash, the sender is what stands before
\* the first colon after p, trimmed, and the text is what follows that
\* colon, trimmed at both ends or, with bothEnds = FALSE, at its start only.
SplitAtFirstColon(d, line, bothEnds) ==
  \E p \in 1..Len(line) :
    LET timeB == p - Len(d.time) + 1
        dash  == FirstAfter(line, p, "-")
        colon == FirstAfter(line, p, ":")
        rest  == SubSeq(line, colon + 1, Len(line))
    IN  /\ d.date # <<>> /\ d.time # <<>>
        /\ timeB >= Len(d.date) + 3
        /\ SubSeq(line, 1, Len(d.date)) = d.date
        /\ line[Len(d.date) + 1] = ","
        /\ \A k \in (Len(d.date) + 2)..(timeB - 1) : IsSpace(line[k])
        /\ SubSeq(line, timeB, p) = d.time
        /\ ~IsSpace(line[timeB])
        /\ dash < colon /\ colon <= Len(line)
        /\ \A k \in (p + 1)..(dash - 1) : IsSpace(line[k])
        /\ d.sender = Strip(SubSeq(line, dash + 1, colon - 1))
        /\ \A k \in 1..Len(d.sender) : d.sender[k] # ":"
        /\ d.message = IF bothEnds THEN Strip(rest) ELSE LStrip(rest)

\* C7 as stated: the text of a message just started is the rest of its
\* header line after the first colon that follows the date and time, with
\* only the leading whitespace removed.
C7_TextOnlyLeftTrimmed ==
  JustStarted => SplitAtFirstColon(heap[current_msg], lines[idx - 1], FALSE)

\* C7: a message just started has the date and the time of its header line
\* as they stand in the line, as sender what stands between the dash and the
\* first colon after the date and time, without surrounding whitespace and
\* without a colon, and as text the rest of the line after that colon
\* without its leading and its trailing whitespace.
C7_SplitAtFirstColon ==
  JustStarted => SplitAtFirstColon(heap[current_msg], lines[idx - 1], TRUE)

\* A message has just been started by a header line that ends with
\* whitespace, has a colon in its text and a space before the colon that
\* ends the sender.
C7_Witness ==
  /\ JustStarted
  /\ IsSpace(lines[idx - 1][Len(lines[idx - 1])])
  /\ \E k \in 1..Len(heap[current_msg].message) :
       heap[current_msg].message[k] = ":"
  /\ \E k \in 2..Len(lines[idx - 1]) :
       lines[idx - 1][k] = ":" /\ IsSpace(lines[idx - 1][k - 1])

\* The dicts started so far: every header line scanned has made one.
Started == 1..Len(heap)

Emitted == {messages[k] : k \in 1..Len(messages)}

\* Each emitted message is in the list once.
EmittedOnce == Cardinality(Emitted) = Len(messages)

\* During the scan a started message is either in the list, once, or the
\* one message under construction, not both; after the scan every started
\* message is in the list, once, in the order of the header lines.
OneUnderConstruction ==
  /\ pc = "scan" =>
       /\ EmittedOnce
       /\ current_msg \notin Emitted
       /\ Started = Emitted \cup ({current_msg} \ {None})
  /\ Parsed =>
       /\ EmittedOnce
       /\ messages = [k \in 1..Len(heap) |-> k]

\* The list changes only by the message under construction being appended
\* to it, and only in the pass over a header line or at the end of the
\* lines.
EmittedAtNextHeaderOrEnd ==
  messages' # messages =>
    /\ pc = "scan"
    /\ current_msg # None
    /\ messages' = Append(messages, current_msg)
    /\ \/ idx <= Len(lines) /\ IsHeader(lines[idx])
       \/ idx > Len(lines)

\* C17: during the scan at most one message is under construction, and a
\* message started by a header line is appended to the output once, in the
\* pass over the next header line or at the end of the input, not before
\* and not twice; after the end of the input no started message is left
\* out of the output.
C17_EmittedExactlyOnce ==
  /\ []OneUnderConstruction
  /\ [][EmittedAtNextHeaderOrEnd]_vars

\* A message has been emitted by the next header line, a second one is
\* under construction and a third line is still to be scanned.
C17_Witness ==
  /\ pc = "scan"
  /\ idx = 3
  /\ Len(lines) = 3
  /\ Len(messages) = 1
  /\ current_msg = 2

\* The machine of two states: NoMessage is acc = <<>>, Accumulating(m) is
\* acc = <<m>>; out is the sequence of the messages finalized so far.
MachineStart == [acc |-> <<>>, out |-> <<>>]

\* The transition of the machine on a line: a header line finalizes the
\* message accumulated, if any, and begins to accumulate the message of the
\* line; a continuation line (not a header line, not blank) is added to the
\* message accumulated, trimmed and after a newline, and is dropped in
\* NoMessage; a blank line changes nothing.
MachineStep(m, line) ==
  IF IsHeader(line)
  THEN [acc |-> <<NewMessage(HeaderMatch(line))>>, out |-> m.out \o m.acc]
  ELSE IF IsBlankLine(line) \/ m.acc = <<>> THEN m
  ELSE [m EXCEPT !.acc[1].message = @ \o <<"U+000A">> \o Strip(line)]

\* The transition on the end of the input: the message accumulated, if any,
\* is finalized.
MachineEnd(m) == [acc |-> <<>>, out |-> m.out \o m.acc]

\* The fold of MachineStep over the first n lines of ls.
RECURSIVE MachineFold(_, _)
MachineFold(ls, n) ==
  IF n = 0 THEN MachineStart
  ELSE MachineStep(MachineFold(ls, n - 1), ls[n])

\* C18: the loop over the lines is the machine of two states run as a fold.
\* After every pass of the loop the list is the machine's output, the slot
\* is None exactly when the machine is in NoMessage, and otherwise holds
\* the message the machine accumulates; after the loop the list returned is
\* the machine's output at the end of the input; and once a header line has
\* been scanned the slot is not None again.
C18_TwoStateMachine ==
  /\ pc = "scan" =>
       LET m == MachineFold(lines, idx - 1)
       IN  /\ Deref(heap, messages) = m.out
           /\ current_msg = None <=> m.acc = <<>>
           /\ current_msg # None => <<heap[current_msg]>> = m.acc
           /\ HeaderPositions(lines, idx - 1) # {} => current_msg # None
  /\ Parsed =>
       Deref(heap, messages) = MachineEnd(MachineFold(lines, Len(lines))).out

\* A header line, a blank line and a continuation line have been scanned:
\* the message of the first is under construction with the third added.
C18_Witness ==
  /\ pc = "scan"
  /\ idx = 4
  /\ IsHeader(lines[1])
  /\ IsBlankLine(lines[2])
  /\ ~IsHeader(lines[3]) /\ ~IsBlankLine(lines[3])
  /\ current_msg = 1
  /\ messages = <<>>

\* -------------------------------------------------------------------------
\* Properties of is_bangla_text
\* -------------------------------------------------------------------------

\* Some entry of the exclusion list is a substring of text, letter case
\* apart.
HasMarker(t) ==
  \E k \in 1..Len(system_keywords) :
    Contains(Lower(t), Lower(system_keywords[k]))

\* The positions of text whose character is neither whitespace nor of the
\* skipped punctuation, and those of them in the range U+0980..U+09FF.
Countable(t) == {i \in 1..Len(t) : ~IsSpace(t[i]) /\ t[i] \notin Punctuation}

Script(t) ==
  {i \in Countable(t) : 2432 <= CodePoint(t[i]) /\ CodePoint(t[i]) <= 2559}

\* C8: a text that contains an entry of the exclusion list, letter case
\* apart, is classified false, whatever its characters.
C8_MarkerExcluded ==
  (cpc = "done" /\ HasMarker(text)) => result = FALSE

\* A text with a marker in other letter case than the list's, and with a
\* quarter or more of its countable characters in the Bangla range, has been
\* classified.
C8_Witness ==
  /\ cpc = "done"
  /\ HasMarker(text)
  /\ ~(\E k \in 1..Len(system_keywords) : Contains(text, system_keywords[k]))
  /\ 4 * Cardinality(Script(text)) >= Cardinality(Countable(text))

\* C9: a text that is not blank, has no marker and has a countable
\* character is classified true exactly when four times the number of its
\* countable characters in the Bangla range is at least the number of its
\* countable characters.
C9_QuarterThreshold ==
  (/\ cpc = "done"
   /\ ~IsBlankLine(text)
   /\ ~HasMarker(text)
   /\ Countable(text) # {}) =>
    (result = TRUE <=>
       4 * Cardinality(Script(text)) >= Cardinality(Countable(text)))

\* A text with one Bangla character among four countable ones has been
\* classified true.
C9_Witness ==
  /\ cpc = "done"
  /\ ~HasMarker(text)
  /\ Cardinality(Countable(text)) = 4
  /\ Cardinality(Script(text)) = 1
  /\ result = TRUE

\* A text with one Bangla character among five countable ones has been
\* classified false.
C9_WitnessBelow ==
  /\ cpc = "done"
  /\ ~HasMarker(text)
  /\ Cardinality(Countable(text)) = 5
  /\ Cardinality(Script(text)) = 1
  /\ result = FALSE

\* C10: the call never ends in a division by zero, and a text that has only
\* whitespace and skipped punctuation (the empty text and the blank texts
\* among them) is classified false.
C10_NothingCountableIsFalse ==
  /\ cpc # "ZeroDivisionError"
  /\ (cpc = "done" /\ Countable(text) = {}) => result = FALSE

\* A text of whitespace and punctuation, with some of each, has gone through
\* the counting loop and has been classified.
C10_Witness ==
  /\ cpc = "done"
  /\ Countable(text) = {}
  /\ \E i \in 1..Len(text) : IsSpace(text[i])
  /\ \E i \in 1..Len(text) : text[i] \in Punctuation
  /\ ci > Len(text)

\* C13: is_bangla_text is total: on every text (empty, blank, of
\* punctuation only, of several lines, of any characters) the call raises
\* nothing and comes to its end with a boolean as its result.
C13_Total ==
  /\ [](cpc \in {"call", "keywords", "count", "done"})
  /\ <>(cpc = "done" /\ result \in BOOLEAN)

\* A text of several lines with an emoji has been classified after a pass
\* over all its characters.
C13_Witness ==
  /\ cpc = "done"
  /\ ci > Len(text)
  /\ \E i \in 1..Len(text) : text[i] = "U+000A"
  /\ \E i \in 1..Len(text) : text[i] = "U+1F600"

\* The characters of text the counting loop has passed.
Passed == SubSeq(text, 1, ci - 1)

\* C19: in the counting loop whitespace and the characters of the
\* punctuation set add to neither counter, every other character (a
\* letter, a digit, the underscore, an emoji) adds one to total_chars, and
\* those of them in U+0980..U+09FF add one to bangla_chars as well:
\* after each pass the counters are the numbers of such characters passed,
\* and 0 <= bangla_chars <= total_chars.
C19_CountingRule ==
  cpc \in {"count", "done"} =>
    /\ total_chars = Cardinality(Countable(Passed))
    /\ bangla_chars = Cardinality(Script(Passed))
    /\ 0 <= bangla_chars
    /\ bangla_chars <= total_chars

\* The loop has passed a text with a Bangla letter, an underscore, a digit,
\* a newline and punctuation: three characters counted, one as Bangla.
C19_Witness ==
  /\ cpc = "count"
  /\ ci > Len(text)
  /\ \E i \in 1..Len(text) : text[i] = "_"
  /\ \E i \in 1..Len(text) : text[i] \in Punctuation
  /\ \E i \in 1..Len(text) : IsSpace(text[i])
  /\ total_chars = 3
  /\ bangla_chars = 1

\* The same with an emoji for the Bangla letter: three counted, none as
\* Bangla.
C19_WitnessEmoji ==
  /\ cpc = "count"
  /\ ci > Len(text)
  /\ \E i \in 1..Len(text) : text[i] = "U+1F600"
  /\ \E i \in 1..Len(text) : text[i] = "7"
  /\ total_chars = 3
  /\ bangla_chars = 0

\* -------------------------------------------------------------------------
\* Properties of the upload handling
\* -------------------------------------------------------------------------

\* The log of three lines: Alice's header line, a continuation line in
\* Bangla, Bob's header line.
RoundTripLog == JoinLines(<<LineAlice, LineBangla, LineBob>>)

\* The Bangla word of Alice's header line.
Hello == <<"U+09B9", "U+09CD", "U+09AF", "U+09BE", "U+09B2", "U+09CB">>

\* filter_bangla_messages has returned.
Filtered == pc \in {"display", "done", "warning"}

\* C11: parsing the log of three lines gives exactly two messages, Alice's
\* with the text of her line, a newline and the continuation line, and
\* Bob's with the text 'hi'; is_bangla_text is true of the first text and
\* false of the second, so that the filter keeps Alice's message only.
C11_RoundTrip ==
  (chat_text = RoundTripLog /\ Parsed) =>
    /\ Len(messages) = 2
    /\ heap[messages[1]].sender = <<"A", "l", "i", "c", "e">>
    /\ heap[messages[1]].message = Hello \o <<"U+000A">> \o LineBangla
    /\ heap[messages[2]].sender = <<"B", "o", "b">>
    /\ heap[messages[2]].message = <<"h", "i">>
    /\ [k \in 1..2 |-> is_bangla_text(heap[messages[k]].message)]
         = <<TRUE, FALSE>>
    /\ Filtered => bangla_messages = <<messages[1]>>

\* The log of three lines has been parsed and filtered, and its messages
\* are shown.
C11_Witness ==
  /\ chat_text = RoundTripLog
  /\ pc = "done"
  /\ Len(messages) = 2

\* An archive that extracts and has no text file among its members.
HasNoTextFile(a) ==
  /\ a.is_zip
  /\ a.bad_member = 0
  /\ \A k \in 1..Len(a.members) : ~(a.members[k].txt /\ ~a.members[k].dir)

\* An archive that extracts and has no member, file or directory, named
\* '*.txt'.
HasNoTxtName(a) ==
  /\ a.is_zip
  /\ a.bad_member = 0
  /\ \A k \in 1..Len(a.members) : ~a.members[k].txt

\* Nothing has been parsed, filtered or shown.
NoResults ==
  /\ lines = <<>>
  /\ heap = <<>>
  /\ messages = <<>>
  /\ bangla_messages = <<>>
  /\ filtered_messages = <<>>

\* What the upload handling does with an archive a of which the predicate
\* none(a) holds: extract_zip_file returns None and the handling goes to the
\* error and nowhere else (neither parse_whatsapp_chat nor
\* filter_bangla_messages is entered, and nothing is parsed, filtered or
\* shown).
EndsInError(none) ==
  none =>
    /\ pc \in {"extract", "open", "extractall", "returned", "error"}
    /\ pc \in {"returned", "error"} => chat_text = NoText
    /\ NoResults

\* The error is only shown when None was returned, and the warning only
\* after a chat has been parsed and filtered with no Bangla message found.
ErrorAndWarningApart ==
  /\ pc = "error" => (chat_text = NoText /\ NoResults)
  /\ pc = "warning" =>
       /\ chat_text # NoText
       /\ lines = Split(chat_text)
       /\ fidx > Len(messages)
       /\ bangla_messages = <<>>

\* C12: for an archive without a text file extract_zip_file returns None,
\* the upload handling shows the error without entering
\* parse_whatsapp_chat or filter_bangla_messages and without results, and
\* the error and the warning of a chat without Bangla messages are
\* distinct outcomes.
C12_NoTextFileIsAnError ==
  /\ EndsInError(HasNoTextFile(archive))
  /\ ErrorAndWarningApart

\* The same for the archives without any member named '*.txt': of these it
\* holds.
C12_NoTxtNameIsAnError ==
  /\ EndsInError(HasNoTxtName(archive))
  /\ ErrorAndWarningApart

\* The error is shown for an archive with a photo and no text file.
C12_Witness ==
  /\ pc = "error"
  /\ HasNoTxtName(archive)
  /\ archive.members # <<>>
  /\ member > Len(archive.members)

\* The warning is shown for a chat with messages, none of them Bangla.
C12_WitnessWarning ==
  /\ pc = "warning"
  /\ messages # <<>>

\* extract_zip_file has been left, by a return or by an exception.
Extracted == pc \notin {"extract", "open", "extractall"}

\* C14: the temporary directory exists only inside extract_zip_file: once
\* the call has returned the text, returned None or raised partway through
\* the extraction or the reading, the directory is gone, with all that was
\* extracted into it.
C14_TempDirReleased ==
  /\ pc \in {"open", "extractall"} => temp_dir.exists
  /\ Extracted => temp_dir = NoDir

\* The extraction has raised at the second member, after the first was
\* written to the directory, and the directory is gone.
C14_Witness ==
  /\ pc = "exception"
  /\ archive.bad_member = 2
  /\ member = 2
  /\ ~temp_dir.exists

\* The text has been returned, None has been returned, the reading has
\* raised: the three other ways out of the function.
C14_WitnessText ==
  pc = "returned" /\ chat_text # NoText /\ ~temp_dir.exists

C14_WitnessNone ==
  pc = "returned" /\ chat_text = NoText /\ ~temp_dir.exists

C14_WitnessRead ==
  /\ pc = "exception"
  /\ member > Len(archive.members)
  /\ \E k \in 1..Len(archive.members) : archive.members[k].txt
  /\ ~temp_dir.exists

\* The elements of a, in their order, are among those of b in theirs.
RECURSIVE IsSubsequence(_, _)
IsSubsequence(a, b) ==
  IF a = <<>> THEN TRUE
  ELSE IF b = <<>> THEN FALSE
  ELSE IF Head(a) = Head(b) THEN IsSubsequence(Tail(a), Tail(b))
  ELSE IsSubsequence(a, Tail(b))

\* The messages among refs that is_bangla_text classifies true, in the order
\* of refs.
BanglaOf(refs) ==
  SelectSeq(refs, LAMBDA r : is_bangla_text(heap[r].message))

\* C15: filter_bangla_messages builds a view and deletes nothing: while it
\* runs and ever after, the list the parser returned is what the parser
\* returned, and the view is exactly the messages passed so far that
\* is_bangla_text classifies true, in their order; the list shown after
\* the search and sender filters is a subsequence of the view, in its order,
\* and the view is still the same.
C15_DerivedView ==
  /\ pc = "filter" =>
       /\ Deref(heap, messages) = parse_whatsapp_chat(chat_text)
       /\ bangla_messages = BanglaOf(SubSeq(messages, 1, fidx - 1))
  /\ Filtered =>
       /\ Deref(heap, messages) = parse_whatsapp_chat(chat_text)
       /\ bangla_messages = BanglaOf(messages)
  /\ pc = "done" => IsSubsequence(filtered_messages, bangla_messages)
  /\ pc # "done" => filtered_messages = <<>>

\* Of three parsed messages the filter has kept two and left one out, and
\* the sender filter has kept one of the two.
C15_Witness ==
  /\ pc = "done"
  /\ Len(messages) = 3
  /\ Len(bangla_messages) = 2
  /\ Len(filtered_messages) = 1
  /\ selected_sender # Everyone

\* C16: a call depends on its argument only. In a session of several
\* uploads, whatever was uploaded before and whatever values the runs
\* before have left in the variables, the list parse_whatsapp_chat returns
\* is the function parse_whatsapp_chat of the text of this call, the value
\* is_bangla_text returns is the function is_bangla_text of the text of
\* this call, and the view of the filter is made of them.
C16_CallsIndependent ==
  /\ Parsed => Deref(heap, messages) = parse_whatsapp_chat(chat_text)
  /\ cpc = "done" => result = is_bangla_text(text)
  /\ Filtered => bangla_messages = BanglaOf(messages)

\* The second upload of a session, a chat of a continuation line only, has
\* been parsed to no message after a first upload that left one message,
\* whose dict is still there.
C16_Witness ==
  /\ runs = 2
  /\ pc = "warning"
  /\ chat_text = LineBangla
  /\ messages = <<>>
  /\ heap # <<>>
  /\ text # <<>>

\* The line has the date, the time and the dash of a header line and no
\* colon after them: with a colon added at its end it matches the pattern,
\* and that colon is the one the pattern finds.
IsNotice(line) ==
  LET match == HeaderMatch(line \o <<":">>)
  IN  /\ match.matched
      /\ match.g4 = <<>>
      /\ Len(match.g3) >= 1
      /\ SubSeq(line, Len(line) - Len(match.g3) + 1, Len(line)) = match.g3

\* The position in the returned list of the message under construction
\* when line i is scanned (0: none).
MessageAt(i) == Cardinality(HeaderPositions(lines, i))

\* C20: a line with the date and the time of a header line and no colon
\* after the dash is not a header line; scanned while a message is under
\* construction it is added to the text of that message, trimmed, after a
\* newline; and when it contains a marker of the exclusion list that
\* message is classified false and is left out of the view, whatever the
\* rest of its text.
C20_NoticeJoinsPrecedingMessage ==
  Parsed =>
    \A i \in 1..Len(lines) :
      IsNotice(lines[i]) =>
        /\ ~IsHeader(lines[i])
        /\ MessageAt(i) > 0 =>
             LET ref == messages[MessageAt(i)]
             IN  /\ Contains(heap[ref].message,
                             <<"U+000A">> \o Strip(lines[i]))
                 /\ HasMarker(lines[i]) =>
                      /\ ~is_bangla_text(heap[ref].message)
                      /\ Filtered =>
                           \A k \in 1..Len(bangla_messages) :
                             bangla_messages[k] # ref

\* Alice's Bangla message of two lines is followed by the notice that she
\* left: the one message of the chat has more than a quarter of its
\* countable characters in the Bangla range, and the view is empty.
C20_Witness ==
  /\ pc = "warning"
  /\ Len(lines) >= 3
  /\ IsNotice(lines[3])
  /\ HasMarker(lines[3])
  /\ Len(messages) = 1
  /\ LET t == heap[messages[1]].message
     IN  4 * Cardinality(Script(t)) >= Cardinality(Countable(t))
  /\ bangla_messages = <<>>

\* -------------------------------------------------------------------------
\* Properties of get_video_comments
\* -------------------------------------------------------------------------

\* The number of comments collected before the page in hand.
CollectedBefore ==
  IF gpc = "for" THEN Len(comments_data) - (item - 1) ELSE Len(comments_data)

\* A request has been built and the function has not returned.
Requested == gpc \in {"while", "execute", "for", "except"}

\* C21: every page request, the first included, asks for
\* min(max_results - collected so far, 100) items; and as long as no response
\* held more items than its request asked for, the number of comments
\* collected is at most max_results, at every point of the loop and in the
\* list returned.
C21_NeverMoreThanMaxResults ==
  /\ Requested =>
       request.maxResults = Min(max_results - CollectedBefore, PageCap)
  /\ obeyed => Len(comments_data) <= max_results
  /\ obeyed /\ returned.value = "list" =>
       Len(returned.comments) <= max_results

\* More than a page of comments was asked for, a second page was requested
\* for the rest, and exactly max_results comments were returned.
C21_Witness ==
  /\ gpc = "done"
  /\ obeyed
  /\ max_results > PageCap
  /\ request = Request(TRUE, max_results - PageCap)
  /\ returned.value = "list"
  /\ Len(returned.comments) = max_results

\* A step that issues a page request after the first one.
FurtherRequest ==
  /\ gpc # "execute"
  /\ gpc' = "execute"
  /\ request'.pageToken

\* The items of the last response have all been appended.
PageDone == gpc = "for" /\ item > response.items

\* A further page request is issued only when the last response carried a
\* nextPageToken and fewer than max_results comments have been collected.
FurtherRequestOnlyWhenMore ==
  FurtherRequest =>
    /\ response'.nextPageToken
    /\ Len(comments_data') < max_results

\* After a response without a nextPageToken, or one that brought the number
\* of comments to max_results, the loop is left; and once it is left no
\* request is built or issued and the comments are returned as they are.
StopsOtherwise ==
  /\ PageDone /\ (~response.nextPageToken \/ Len(comments_data) >= max_results)
       => gpc' \in {"for", "return"} /\ request' = request
  /\ gpc = "return"
       => gpc' \in {"return", "done"} /\ request' = request
                                      /\ comments_data' = comments_data
  /\ gpc = "done" => gpc' = "done"

\* C22: the loop issues a further page request only when the last response
\* carried a nextPageToken and fewer than max_results comments have been
\* collected; it stops at the first response without a nextPageToken or when
\* max_results is reached; and get_video_comments returns unless some
\* response carried a nextPageToken and no comment.
C22_LoopStops ==
  /\ [][FurtherRequestOnlyWhenMore /\ StopsOtherwise]_vars
  /\ <>(gpc = "done" \/ ~productive)

\* After a second page that carried no nextPageToken, fewer than max_results
\* comments were returned, every page with a token having held a comment.
C22_Witness ==
  /\ gpc = "done"
  /\ productive
  /\ request.pageToken
  /\ ~response.nextPageToken
  /\ returned.value = "list"
  /\ Len(returned.comments) < max_results

\* After a second page that carried a nextPageToken, max_results comments
\* were returned and no third page was requested.
C22_WitnessFull ==
  /\ gpc = "done"
  /\ productive
  /\ request.pageToken
  /\ response.nextPageToken
  /\ returned.value = "list"
  /\ Len(returned.comments) = max_results

\* C23: when a page request raises HttpError, on the first page or on a
\* later one, get_video_comments returns None, or in overall.py the string
\* "disabled" when the text of the error contains commentsDisabled, and
\* none of the comments collected from the pages before.
C23_ErrorReturnsNoComments ==
  error # "none" /\ gpc = "done" =>
    /\ returned.comments = <<>>
    /\ module = "comment" => returned.value = "None"
    /\ module = "overall" =>
         returned.value = IF error = "commentsDisabled" THEN "disabled" ELSE "None"

\* The request for the second page raised after the first page had brought
\* comments, and get_video_comments has returned.
C23_Witness ==
  /\ gpc = "done"
  /\ error # "none"
  /\ request.pageToken
  /\ comments_data # <<>>

\* In overall.py the request for the second page raised commentsDisabled.
C23_WitnessDisabled ==
  /\ gpc = "done"
  /\ module = "overall"
  /\ error = "commentsDisabled"
  /\ request.pageToken
  /\ comments_data # <<>>

\* The request for the first page raised.
C23_WitnessFirstPage ==
  /\ gpc = "done"
  /\ error # "none"
  /\ ~request.pageToken

====
